---------------------------- MODULE Spec2Model ----------------------------
(***************************************************************************)
(* Model of github.com/cd365/fileupload: the Storage helper                *)
(* (fileupload.go) and the shutdown handshake of the example server's      *)
(* main.                                                                   *)
(*                                                                         *)
(* A Go string or []byte is a sequence of one-character strings; a byte of *)
(* file content is a number in 0..255.  The build modelled is a Unix one   *)
(* (os.PathSeparator = '/').                                               *)
(***************************************************************************)
EXTENDS Integers, Sequences, FiniteSets, TLC

VARIABLES
    storage,    \* the Storage: its storageDirectory and uriAccessPrefix
    names,      \* filesystem: path of a regular file -> inode number
    inodes,     \* filesystem: inode number -> bytes of the file
    dirs,       \* filesystem: the directories that exist
    calls,      \* how many handler calls have been made
    prev,       \* the call before the last one (input, record, err, ...)
    last,       \* the last call
    batch,      \* the last batch call: items, returned slice, err, items attempted
    proc,       \* the two concurrent store calls: position, record, fd, err
    raceIn,     \* the upload both concurrent calls store
    mainPc,     \* example server: position of main
    srvPc,      \* example server: position of the goroutine running e.Start
    shutdown,   \* example server: the shutdown channel (buffer, closed)
    notify,     \* example server: the notify channel (buffer, closed)
    exitDone,   \* example server: whether exit (sync.Once) has run
    srv,        \* example server: state of the echo server
    wgCount,    \* example server: the WaitGroup counter
    sent,       \* example server: signals delivered, errors sent on shutdown
    panicked    \* example server: the channel whose use made the process panic, or ""

vars == <<storage, names, inodes, dirs, calls, prev, last, batch, proc, raceIn,
          mainPc, srvPc, shutdown, notify, exitDone, srv, wgCount, sent, panicked>>

fsVars == <<names, inodes, dirs>>
seqVars == <<calls, prev, last>>
mainVars == <<mainPc, srvPc, shutdown, notify, exitDone, srv, wgCount, sent, panicked>>

\* nothing sent yet: signals delivered to the process, errors sent on shutdown
NoSent == [signals |-> 0, errors |-> 0]

\* make(chan T, 1): a channel of capacity one, empty and open
NoChan == [buf |-> 0, closed |-> FALSE]

-----------------------------------------------------------------------------
(* Strings *)

HasPrefix(s, p) == Len(p) <= Len(s) /\ SubSeq(s, 1, Len(p)) = p

TrimPrefix(s, p) == IF HasPrefix(s, p) THEN SubSeq(s, Len(p) + 1, Len(s)) ELSE s

\* strings.Index of a single character, 0 when absent
IndexFrom(s, c, i) ==
    LET hits == {k \in i..Len(s) : s[k] = c}
    IN IF hits = {} THEN 0 ELSE CHOOSE k \in hits : \A j \in hits : k <= j

LastIndex(s, c) ==
    LET hits == {k \in 1..Len(s) : s[k] = c}
    IN IF hits = {} THEN 0 ELSE CHOOSE k \in hits : \A j \in hits : k >= j

RECURSIVE SplitSlash(_)
\* the elements of a path between its slashes (empty elements included)
SplitSlash(s) ==
    LET k == IndexFrom(s, "/", 1)
    IN IF k = 0 THEN <<s>>
       ELSE <<SubSeq(s, 1, k - 1)>> \o SplitSlash(SubSeq(s, k + 1, Len(s)))

RECURSIVE JoinSlash(_)
JoinSlash(elems) ==
    IF Len(elems) = 0 THEN <<>>
    ELSE IF Len(elems) = 1 THEN elems[1]
    ELSE elems[1] \o <<"/">> \o JoinSlash(Tail(elems))

Dot == <<".">>
DotDot == <<".", ".">>

RECURSIVE CleanElems(_, _, _)
\* path.Clean's pass over the elements: out is what is kept so far
CleanElems(elems, out, rooted) ==
    IF Len(elems) = 0 THEN out
    ELSE LET e == elems[1]
             rest == Tail(elems)
         IN IF e = <<>> \/ e = Dot THEN CleanElems(rest, out, rooted)
            ELSE IF e = DotDot
                 THEN IF Len(out) > 0 /\ out[Len(out)] # DotDot
                      THEN CleanElems(rest, SubSeq(out, 1, Len(out) - 1), rooted)
                      ELSE IF rooted THEN CleanElems(rest, out, rooted)
                      ELSE CleanElems(rest, Append(out, e), rooted)
            ELSE CleanElems(rest, Append(out, e), rooted)

\* path.Clean of a non-empty path, given the elements it keeps
CleanJoin(rooted, out) ==
    IF rooted THEN <<"/">> \o JoinSlash(out)
    ELSE IF out = <<>> THEN Dot ELSE JoinSlash(out)

\* path.Clean
Clean(p) ==
    IF p = <<>> THEN Dot
    ELSE CleanJoin(p[1] = "/", CleanElems(SplitSlash(p), <<>>, p[1] = "/"))

\* path.Join: empty elements are ignored, the rest joined by slashes and cleaned
Join(elems) ==
    LET kept == SelectSeq(elems, LAMBDA e : e # <<>>)
    IN IF kept = <<>> THEN <<>> ELSE Clean(JoinSlash(kept))

\* path.Ext: the suffix from the last dot of the last element
Ext(p) ==
    LET d == LastIndex(p, ".")
        s == LastIndex(p, "/")
    IN IF d > s THEN SubSeq(p, d, Len(p)) ELSE <<>>

\* filepath.IsAbs on a Unix build
IsAbs(p) == HasPrefix(p, <<"/">>)

\* the process's working directory
Cwd == <<"/", "w">>

\* filepath.Abs on a Unix build
Abs(p) == IF IsAbs(p) THEN Clean(p) ELSE Join(<<Cwd, p>>)


-----------------------------------------------------------------------------
(* Bytes, digests, base64, the data-URI pattern *)

\* the printable ASCII characters from 32 (space) to 126, in order; the
\* quote characters and the backslash, which no input of the model holds, are
\* spelled out
Printable ==
    <<" ", "!", "DQUOTE", "#", "$", "%", "&", "SQUOTE", "(", ")", "*", "+", ",", "-", ".", "/",
      "0", "1", "2", "3", "4", "5", "6", "7", "8", "9", ":", ";", "<", "=", ">", "?",
      "@", "A", "B", "C", "D", "E", "F", "G", "H", "I", "J", "K", "L", "M", "N", "O",
      "P", "Q", "R", "S", "T", "U", "V", "W", "X", "Y", "Z", "[", "BSLASH", "]", "^", "_",
      "BTICK", "a", "b", "c", "d", "e", "f", "g", "h", "i", "j", "k", "l", "m", "n", "o",
      "p", "q", "r", "s", "t", "u", "v", "w", "x", "y", "z", "{", "|", "}", "~">>

\* the byte value of a character
Ord(c) ==
    IF c = "\n" THEN 10
    ELSE IF c = "\r" THEN 13
    ELSE IF c = "\t" THEN 9
    ELSE 31 + CHOOSE k \in 1..Len(Printable) : Printable[k] = c

\* []byte(s): the bytes of a string
Bytes(s) == [k \in 1..Len(s) |-> Ord(s[k])]

HexDigits == <<"0", "1", "2", "3", "4", "5", "6", "7", "8", "9", "a", "b", "c", "d", "e", "f">>

RECURSIVE EncodeToString(_)
\* hex.EncodeToString: two lower-case hex digits per byte
EncodeToString(bs) ==
    IF Len(bs) = 0 THEN <<>>
    ELSE <<HexDigits[(bs[1] \div 16) + 1], HexDigits[(bs[1] % 16) + 1]>>
         \o EncodeToString(Tail(bs))

\* sha256 over the bytes read.  SHA-256 is taken to be collision-free: a
\* digest is represented by the length of what was hashed followed by the
\* bytes themselves, so that two digests are equal exactly when the hashed
\* bytes are, and no digest is empty.
Sum256(bs) == <<Len(bs) % 256>> \o bs

\* Storage.sha256Reader: the hex digest of everything left to read in r
sha256Reader(bs) == EncodeToString(Sum256(bs))

\* the base64 standard alphabet (encoding/base64 encodeStd)
StdAlphabet ==
    <<"A", "B", "C", "D", "E", "F", "G", "H", "I", "J", "K", "L", "M", "N", "O", "P",
      "Q", "R", "S", "T", "U", "V", "W", "X", "Y", "Z", "a", "b", "c", "d", "e", "f",
      "g", "h", "i", "j", "k", "l", "m", "n", "o", "p", "q", "r", "s", "t", "u", "v",
      "w", "x", "y", "z", "0", "1", "2", "3", "4", "5", "6", "7", "8", "9", "+", "/">>

IsB64Char(c) == \E k \in 1..Len(StdAlphabet) : StdAlphabet[k] = c

B64Val(c) == (CHOOSE k \in 1..Len(StdAlphabet) : StdAlphabet[k] = c) - 1

\* the decoder skips carriage returns and line feeds
StripNewlines(s) == SelectSeq(s, LAMBDA c : c # "\r" /\ c # "\n")

Bad == [ok |-> FALSE, bytes |-> <<>>]
Good(bs) == [ok |-> TRUE, bytes |-> bs]

\* one quantum of four characters: its bytes, or Bad.  Padding may only end
\* the input; the bits a padded quantum leaves over are not checked (the
\* encoding is not Strict).
DecodeQuantum(q, isLast) ==
    LET v(i) == B64Val(q[i])
        b1 == (v(1) * 4 + v(2) \div 16) % 256
        b2 == (v(2) * 16 + v(3) \div 4) % 256
        b3 == (v(3) * 64 + v(4)) % 256
    IN IF \A i \in 1..4 : IsB64Char(q[i]) THEN Good(<<b1, b2, b3>>)
       ELSE IF ~isLast THEN Bad
       ELSE IF IsB64Char(q[1]) /\ IsB64Char(q[2]) /\ q[3] = "=" /\ q[4] = "="
            THEN Good(<<b1>>)
       ELSE IF IsB64Char(q[1]) /\ IsB64Char(q[2]) /\ IsB64Char(q[3]) /\ q[4] = "="
            THEN Good(<<b1, b2>>)
       ELSE Bad

RECURSIVE DecodeQuanta(_)
DecodeQuanta(s) ==
    IF Len(s) = 0 THEN Good(<<>>)
    ELSE IF Len(s) < 4 THEN Bad
    ELSE LET q == DecodeQuantum(SubSeq(s, 1, 4), Len(s) = 4)
             rest == DecodeQuanta(SubSeq(s, 5, Len(s)))
         IN IF q.ok /\ rest.ok THEN Good(q.bytes \o rest.bytes) ELSE Bad

\* base64.StdEncoding.DecodeString: the decoded bytes, or Bad (CorruptInputError)
DecodeString(s) == DecodeQuanta(StripNewlines(s))

\* the white space class of Go's regexp (RE2): tab, line feed, form feed,
\* carriage return, space (no input of the model holds a form feed)
IsSpace(c) == c \in {" ", "\t", "\n", "\r"}

\* \w of Go's regexp: [0-9A-Za-z_]
IsWord(c) == c = "_" \/ (IsB64Char(c) /\ c # "+" /\ c # "/")

\* the characters of s
Chars(s) == {s[k] : k \in 1..Len(s)}

\* the index after the longest run of characters of the class ok that starts at i
RunEnd(s, i, ok) ==
    LET stops == {k \in i..(Len(s) + 1) : k = Len(s) + 1 \/ s[k] \notin ok}
    IN IF i > Len(s) THEN i ELSE CHOOSE k \in stops : \A j \in stops : k <= j

LitData == <<"d", "a", "t", "a", ":">>
LitImage == <<"i", "m", "a", "g", "e", "/">>
LitBase64 == <<";", "b", "a", "s", "e", "6", "4", ",">>

HasAt(s, i, lit) == i + Len(lit) - 1 <= Len(s) /\ SubSeq(s, i, i + Len(lit) - 1) = lit

\* the pattern with its image/ segment forgotten: ^data:\s*(\w+);base64,(.*)
regexpNoImageSegment(content) ==
    LET i2 == RunEnd(content, 1 + Len(LitData), {c \in Chars(content) : IsSpace(c)})
        i4 == RunEnd(content, i2, {c \in Chars(content) : IsWord(c)})
        i5 == i4 + Len(LitBase64)
    IN IF HasAt(content, 1, LitData) /\ i4 > i2 /\ HasAt(content, i4, LitBase64)
       THEN [matched |-> TRUE, subtype |-> SubSeq(content, i2, i4 - 1),
             payload |-> SubSeq(content, i5, RunEnd(content, i5, Chars(content) \ {"\n"}) - 1)]
       ELSE [matched |-> FALSE, subtype |-> <<>>, payload |-> <<>>]

\* regexpImageBase64.FindAllSubmatch(content, -1)[0]: the subtype and the payload
\* of the match of ^data:\s*image/(\w+);base64,(.*), if there is one.  The pattern
\* is anchored and every repetition is followed by a character it cannot take,
\* so the leftmost-first match is the greedy one.
regexpImageBase64(content) ==
    LET i1 == 1 + Len(LitData)
        i2 == RunEnd(content, i1, {c \in Chars(content) : IsSpace(c)})
        i3 == i2 + Len(LitImage)
        i4 == RunEnd(content, i3, {c \in Chars(content) : IsWord(c)})
        i5 == i4 + Len(LitBase64)
        i6 == RunEnd(content, i5, Chars(content) \ {"\n"})
    IN IF /\ HasAt(content, 1, LitData)
          /\ HasAt(content, i2, LitImage)
          /\ i4 > i3
          /\ HasAt(content, i4, LitBase64)
       THEN [matched |-> TRUE, subtype |-> SubSeq(content, i3, i4 - 1),
             payload |-> SubSeq(content, i5, i6 - 1)]
       ELSE [matched |-> FALSE, subtype |-> <<>>, payload |-> <<>>]


-----------------------------------------------------------------------------
(* The filesystem: a record [names, inodes, dirs] over absolute paths *)

Root == <<"/">>

\* the directory holding an absolute path
Parent(p) == Join(<<p, DotDot>>)

RECURSIVE Ancestors(_)
\* an absolute path and every directory above it
Ancestors(p) == IF p = Root THEN {Root} ELSE {p} \cup Ancestors(Parent(p))

Max(S) == CHOOSE x \in S : \A y \in S : x >= y

FreshInode(fs) == IF DOMAIN fs.inodes = {} THEN 1 ELSE Max(DOMAIN fs.inodes) + 1

\* os.Stat of an absolute path
StatAbs(fs, p) ==
    IF p \in fs.dirs THEN [kind |-> "dir", size |-> 0]
    ELSE IF p \in DOMAIN fs.names
         THEN [kind |-> "file", size |-> Len(fs.inodes[fs.names[p]])]
    ELSE IF \E a \in Ancestors(p) : a \in DOMAIN fs.names
         THEN [kind |-> "notdir", size |-> 0]
    ELSE [kind |-> "notexist", size |-> 0]

\* os.Stat: what is at the path ("file", "dir"), or why nothing is seen
\* ("notexist": os.IsNotExist holds; "notdir": a component is a regular file)
Stat(fs, path) == StatAbs(fs, Abs(path))

NoErr(fs) == [fs |-> fs, err |-> ""]

\* os.MkdirAll of an absolute path
MkdirAllAbs(fs, ancestors) ==
    IF \E a \in ancestors : a \in DOMAIN fs.names
    THEN [fs |-> fs, err |-> "mkdir"]
    ELSE NoErr([fs EXCEPT !.dirs = @ \cup ancestors])

\* os.MkdirAll: the directory and every missing parent; an error when a
\* component is a regular file or the path is empty
MkdirAll(fs, dir) ==
    IF dir = <<>> THEN [fs |-> fs, err |-> "mkdir"]
    ELSE MkdirAllAbs(fs, Ancestors(Abs(dir)))

\* os.Remove of the regular file at an absolute path
RemoveAbs(fs, p) ==
    IF p \in DOMAIN fs.names
    THEN NoErr([fs EXCEPT !.names = [q \in DOMAIN @ \ {p} |-> @[q]]])
    ELSE [fs |-> fs, err |-> "remove"]

\* os.Remove of a regular file: the name goes, the inode stays for whoever
\* holds it open
Remove(fs, path) == RemoveAbs(fs, Abs(path))

\* os.Create of an absolute path, ino being an unused inode number
CreateAbs(fs, p, ino) ==
    IF p \in fs.dirs \/ Parent(p) \notin fs.dirs
    THEN [fs |-> fs, err |-> "create", ino |-> 0]
    ELSE IF p \in DOMAIN fs.names
         THEN [fs |-> [fs EXCEPT !.inodes[fs.names[p]] = <<>>], err |-> "",
               ino |-> fs.names[p]]
    ELSE [fs |-> [fs EXCEPT !.names = [q \in DOMAIN @ \cup {p} |->
                                         IF q = p THEN ino ELSE @[q]],
                            !.inodes = [i \in DOMAIN @ \cup {ino} |->
                                         IF i = ino THEN <<>> ELSE @[i]]],
          err |-> "", ino |-> ino]

\* os.Create: O_RDWR|O_CREATE|O_TRUNC.  An existing file keeps its inode and
\* loses its bytes; a new file gets a new inode.  ino is the file opened.
Create(fs, path) == CreateAbs(fs, Abs(path), FreshInode(fs))

\* the bytes of a file of n bytes after bs is written at offset off of old
Written(old, n, off, bs) ==
    [k \in 1..n |-> IF k > off /\ k <= off + Len(bs) THEN bs[k - off]
                    ELSE IF k <= Len(old) THEN old[k] ELSE 0]

\* a write to a file opened with O_APPEND: at the end, whatever the offset
WriteAppend(fs, ino, off, bs) ==
    [fs EXCEPT !.inodes[ino] = @ \o bs]

\* a write of bs at offset off of an open file: a gap before off reads as zeros
WriteAt(fs, ino, off, bs) ==
    [fs EXCEPT !.inodes[ino] =
        Written(@, IF off + Len(bs) > Len(@) THEN off + Len(bs) ELSE Len(@), off, bs)]

\* the inodes in use are kept
Keep(fs, used) == [fs EXCEPT !.inodes = [i \in used |-> @[i]]]

\* inodes no name refers to are dropped once no call holds them open
Collect(fs) == Keep(fs, {fs.names[q] : q \in DOMAIN fs.names})

FS == [names |-> names, inodes |-> inodes, dirs |-> dirs]

SetFS(fs) == names' = fs.names /\ inodes' = fs.inodes /\ dirs' = fs.dirs

\* the root and the working directory exist; nothing is stored yet
EmptyFS == [names |-> [q \in {} |-> 0], inodes |-> [i \in {} |-> <<>>], dirs |-> Ancestors(Cwd)]


-----------------------------------------------------------------------------
(* Storage.multipartCopy and Storage.base64Copy *)

\* a zero FileStorageResult (Uid, Bucket and Category are never assigned)
NoResult ==
    [Size |-> 0, Name |-> <<>>, Hash |-> <<>>, FileExt |-> <<>>, PathAbs |-> <<>>,
     PathRlt |-> <<>>, PathUri |-> <<>>, OriginName |-> <<>>]

\* what a call returns, with the filesystem it leaves
Out(fs, result, err) == [fs |-> fs, result |-> result, err |-> err]

\* result.Name = result.Hash + result.FileExt, names a result with its origin
NameOfOrigin(result) == result.OriginName

\* result.Name = result.Hash + result.FileExt
NameOf(result) == result.Hash \o result.FileExt

\* src.Seek(0, 0) left out: the read position stays where hashing left it
SeekStartSkipped(pos) == pos

\* src.Seek(0, 0): the next read starts at the first byte
SeekStart(pos) == 0

\* io.Copy from a reader at position pos: everything from there to the end
ReadRest(content, pos) == SubSeq(content, pos + 1, Len(content))

\* the storage directory of a call, the per-request override ignored
EffectiveDirectoryDefault(s, param) == s.storageDirectory

\* the storage directory of a call: the request's when it names one
EffectiveDirectory(s, param) ==
    IF param.StorageDirectory # <<>> THEN param.StorageDirectory ELSE s.storageDirectory

\* the URI prefix of a call: the request's when it names one
EffectivePrefix(s, param) ==
    IF param.UriAccessPrefix # <<>> THEN param.UriAccessPrefix ELSE s.uriAccessPrefix

\* the directory stored in: the sub-directory, when given, under the base
StorageDirectoryOf(saveDirectory, sub) ==
    IF sub # <<>> THEN Join(<<saveDirectory, sub>>) ELSE saveDirectory

\* PathUri before the prefix is applied
EarlyUri(sub, name) == IF sub # <<>> THEN Join(<<sub, name>>) ELSE name

\* PathRlt and PathAbs from the joined path rlt
WithPaths(result, rlt, saveDirectory, uri0) ==
    [result EXCEPT
        !.PathUri = uri0,
        !.PathAbs = IF IsAbs(rlt) THEN rlt ELSE Abs(rlt),
        !.PathRlt = IF IsAbs(rlt) THEN TrimPrefix(rlt, saveDirectory) ELSE rlt]

\* PathUri is made to start with a slash
LeadingSlash(uri) == IF ~HasPrefix(uri, <<"/">>) THEN <<"/">> \o uri ELSE uri

\* the final PathUri: under the prefix when there is one
FinalUri(uriAccessPrefix, uri0) ==
    LeadingSlash(IF uriAccessPrefix # <<>> THEN Join(<<uriAccessPrefix, uri0>>) ELSE uri0)

PlanAt(saveDirectory, storageDirectory, uri0, uriAccessPrefix, result) ==
    [storageDirectory |-> storageDirectory,
     early |-> WithPaths(result, Join(<<storageDirectory, result.Name>>), saveDirectory, uri0),
     PathUri |-> FinalUri(uriAccessPrefix, uri0)]

PlanIn(saveDirectory, sub, uriAccessPrefix, result) ==
    PlanAt(saveDirectory, StorageDirectoryOf(saveDirectory, sub),
           EarlyUri(sub, result.Name), uriAccessPrefix, result)

\* the paths of a result whose Name is set: the directory to store in
\* (storageDirectory), the result with PathRlt, PathAbs and the PathUri held
\* while the directory is made (early), and the final PathUri
Plan(s, param, result) ==
    PlanIn(EffectiveDirectory(s, param), param.StorageSubDirectory,
           EffectivePrefix(s, param), result)

\* the first os.Stat of PathAbs: the directory is made when nothing is there
EnsureDirectory(fs, plan) ==
    IF Stat(fs, plan.early.PathAbs).kind = "notexist"
    THEN MkdirAll(fs, plan.storageDirectory)
    ELSE NoErr(fs)

\* the second os.Stat: whether what is at PathAbs is removed before the write.
\* multipartCopy (sizeChecked) removes a regular file of the same size,
\* base64Copy whatever is not a directory.
ShouldRemove(st, result, sizeChecked) ==
    /\ st.kind = "file"
    /\ sizeChecked => st.size = result.Size

\* the second os.Stat and the os.Remove it may lead to
RemoveIfThere(fs, result, sizeChecked) ==
    IF ShouldRemove(Stat(fs, result.PathAbs), result, sizeChecked)
    THEN Remove(fs, result.PathAbs)
    ELSE NoErr(fs)

\* io.Copy into the created file, from its start: all of bs, or, when the
\* device fails after ioFail bytes (ioFail >= 0), that many and an error
CopyInto(fs, ino, bs, ioFail) ==
    IF ioFail >= 0 /\ ioFail < Len(bs)
    THEN [fs |-> WriteAt(fs, ino, 0, SubSeq(bs, 1, ioFail)), err |-> "copy"]
    ELSE [fs |-> WriteAt(fs, ino, 0, bs), err |-> ""]

\* the return after io.Copy; the deferred dst.Close() has run
AfterCopy(cp, result) == Out(Collect(cp.fs), result, cp.err)

\* after os.Create: its error, or the copy
AfterCreate(cr, result, bs, ioFail) ==
    IF cr.err # "" THEN Out(Collect(cr.fs), result, cr.err)
    ELSE AfterCopy(CopyInto(cr.fs, cr.ino, bs, ioFail), result)

\* after the removal: its error, or os.Create
AfterRemove(rm, result, bs, ioFail) ==
    IF rm.err # "" THEN Out(rm.fs, result, rm.err)
    ELSE AfterCreate(Create(rm.fs, result.PathAbs), result, bs, ioFail)

\* after the directory is made: its error, or the overwrite
AfterMkdir(fs, plan, mk, sizeChecked, bs, ioFail) ==
    IF mk.err # "" THEN Out(fs, plan.early, mk.err)
    ELSE AfterRemove(RemoveIfThere(mk.fs, plan.early, sizeChecked),
                     [plan.early EXCEPT !.PathUri = plan.PathUri], bs, ioFail)

PlaceAt(fs, plan, sizeChecked, bs, ioFail) ==
    AfterMkdir(fs, plan, EnsureDirectory(fs, plan), sizeChecked, bs, ioFail)

\* the rest of both copies once Name is set: paths, directory, removal of
\* what is there, create, copy
Place(fs, s, param, named, sizeChecked, bs, ioFail) ==
    PlaceAt(fs, Plan(s, param, named), sizeChecked, bs, ioFail)

\* result.Hash, result.FileExt and result.Name of a multipart file
NamedFile(r0, file) ==
    [r0 EXCEPT !.Hash = sha256Reader(ReadRest(file.content, 0)),
               !.FileExt = Ext(file.Filename),
               !.Name = NameOf([r0 EXCEPT !.Hash = sha256Reader(ReadRest(file.content, 0)),
                                          !.FileExt = Ext(file.Filename)])]

\* Storage.multipartCopy.  file: [Filename, Size, content, openFails, ioFail]
multipartCopy(fs, s, param, file) ==
    IF file.openFails
    THEN Out(fs, [NoResult EXCEPT !.Size = file.Size, !.OriginName = file.Filename], "open")
    ELSE Place(fs, s, param,
               NamedFile([NoResult EXCEPT !.Size = file.Size, !.OriginName = file.Filename], file),
               TRUE, ReadRest(file.content, SeekStart(Len(file.content))), file.ioFail)

\* result.FileExt, result.Hash and result.Name of a matched image
NamedImage(m, content) ==
    [NoResult EXCEPT !.FileExt = <<".">> \o m.subtype,
                     !.Hash = sha256Reader(Bytes(content)),
                     !.Name = NameOf([NoResult EXCEPT !.FileExt = <<".">> \o m.subtype,
                                                      !.Hash = sha256Reader(Bytes(content))])]

\* base64Copy once the pattern is applied
base64CopyMatched(fs, s, param, in, m, imageContent) ==
    IF ~m.matched THEN Out(fs, NoResult, "illegal image base64 value")
    ELSE IF ~imageContent.ok THEN Out(fs, NoResult, "corrupt input")
    ELSE Place(fs, s, param, NamedImage(m, in.content), FALSE, imageContent.bytes, in.ioFail)

\* Storage.base64Copy.  in: [content, ioFail]
base64Copy(fs, s, param, in) ==
    base64CopyMatched(fs, s, param, in, regexpImageBase64(in.content),
                      DecodeString(regexpImageBase64(in.content).payload))

-----------------------------------------------------------------------------
(* Requests made one after the other *)

MaxCalls == 2

Str_d == <<"/", "d">>
Str_s == <<"/", "s">>
Str_a == <<"a">>
Png == <<"p", "n", "g">>
Gif == <<"g", "i", "f">>

\* NewStorage(WithStorageDirectory("/d"), WithUriAccessPrefix("/s"))
ServerStorage == [storageDirectory |-> Str_d, uriAccessPrefix |-> Str_s]

Param(dir, prefix, sub) ==
    [StorageDirectory |-> dir, UriAccessPrefix |-> prefix, StorageSubDirectory |-> sub]

\* the server's requests set only the sub-directory
Params == {Param(<<>>, <<>>, <<>>), Param(<<>>, <<>>, Str_a)}

\* a *multipart.FileHeader as mime/multipart builds it: Size is the length of
\* the content
File(filename, content, openFails, ioFail) ==
    [Filename |-> filename, Size |-> Len(content), content |-> content,
     openFails |-> openFails, ioFail |-> ioFail]

Image(content, ioFail) == [content |-> content, ioFail |-> ioFail]

DataUri(head, subtype, payload, tail) == head \o subtype \o LitBase64 \o payload \o tail

PayA == <<"Q", "Q", "=", "=">>
PayAB == <<"Q", "U", "I", "=">>

\* data:image/png;base64,QQ== : the one-byte image "A"
UriA == DataUri(LitData \o LitImage, Png, PayA, <<>>)

X_png == <<"x", ".">> \o Png
Y_png == <<"y", ".">> \o Png

Files ==
    {File(X_png, <<65>>, FALSE, -1),
     File(Y_png, <<65>>, FALSE, -1),
     File(X_png, <<65, 66>>, FALSE, -1),
     File(X_png, <<65, 66>>, FALSE, 1),
     File(X_png, <<65>>, TRUE, -1),
     File(<<"x">>, <<65>>, FALSE, -1),
     File(<<"e", ".">> \o Gif, <<>>, FALSE, -1),
     File(X_png, Bytes(UriA), FALSE, -1)}

Images ==
    {Image(UriA, -1),
     Image(DataUri(LitData \o <<" ">> \o LitImage, Png, PayA, <<>>), -1),
     Image(DataUri(LitData \o LitImage, Png, PayA, <<"\n", "x">>), -1),
     Image(DataUri(LitData \o LitImage, Png, PayAB, <<>>), -1),
     Image(DataUri(LitData \o LitImage, Png, PayAB, <<>>), 1),
     Image(DataUri(LitData \o LitImage, Gif, PayA, <<>>), -1),
     Image(DataUri(LitData, Png, PayA, <<>>), -1),
     Image(DataUri(LitData \o LitImage, Png, <<"Q", "Q", "=">>, <<>>), -1)}

NoCall ==
    [kind |-> "none", param |-> Param(<<>>, <<>>, <<>>), file |-> File(<<>>, <<>>, FALSE, -1),
     image |-> Image(<<>>, -1), result |-> NoResult, err |-> "",
     before |-> [kind |-> "notexist", size |-> 0], fsBefore |-> EmptyFS]

\* what is recorded of a call: its input, what it returned, and, from when it
\* began, the filesystem and what was at the result's PathAbs
Call(kind, param, file, image, out) ==
    [kind |-> kind, param |-> param, file |-> file, image |-> image,
     result |-> out.result, err |-> out.err,
     before |-> IF out.result.PathAbs = <<>> THEN [kind |-> "notexist", size |-> 0]
                ELSE Stat(FS, out.result.PathAbs),
     fsBefore |-> FS]

NoBatch == [kind |-> "none", items |-> <<>>, succeeded |-> <<>>, err |-> "", attempted |-> <<>>]

NoRace == [pc |-> "idle"]

RestIdle ==
    /\ batch = NoBatch /\ proc = NoRace /\ raceIn = NoCall
    /\ mainPc = "off" /\ srvPc = "off" /\ shutdown = NoChan /\ notify = NoChan
    /\ exitDone = FALSE /\ srv = "off" /\ wgCount = 0 /\ sent = NoSent /\ panicked = ""

\* a request handler calls s.multipartCopy(param, file)
MultipartCopyCall(P, F) ==
    \E param \in P, file \in F :
        LET out == multipartCopy(FS, storage, param, file)
        IN /\ calls < MaxCalls
           /\ SetFS(out.fs)
           /\ last' = Call("multipart", param, file, NoCall.image, out)
           /\ prev' = last
           /\ calls' = calls + 1
           /\ UNCHANGED <<storage, batch, proc, raceIn, mainVars>>

\* a request handler calls s.base64Copy(param, content)
Base64CopyCall(P, I) ==
    \E param \in P, image \in I :
        LET out == base64Copy(FS, storage, param, image)
        IN /\ calls < MaxCalls
           /\ SetFS(out.fs)
           /\ last' = Call("base64", param, NoCall.file, image, out)
           /\ prev' = last
           /\ calls' = calls + 1
           /\ UNCHANGED <<storage, batch, proc, raceIn, mainVars>>

Init ==
    /\ storage = ServerStorage
    /\ names = EmptyFS.names /\ inodes = EmptyFS.inodes /\ dirs = EmptyFS.dirs
    /\ calls = 0 /\ prev = NoCall /\ last = NoCall
    /\ RestIdle

Next == MultipartCopyCall(Params, Files) \/ Base64CopyCall(Params, Images)

Spec == Init /\ [][Next]_vars


-----------------------------------------------------------------------------
(* Properties of requests made one after the other *)

Succeeded(c) == c.kind # "none" /\ c.err = ""

\* the bytes a call is to store: the file's, or the decoded image's
SourceBytes(c) ==
    IF c.kind = "multipart" THEN c.file.content
    ELSE DecodeString(regexpImageBase64(c.image.content).payload).bytes

\* the bytes of the regular file at a path, <<-1>> when there is none
FileAt(path) == IF path \in DOMAIN names THEN inodes[names[path]] ELSE <<-1>>

\* C1: two successful stores, by multipartCopy or base64Copy in any
\* combination, of the same bytes with the same extension carry the same Hash
\* and the same Name, and the same PathAbs when made with the same parameters.
C1_DedupNaming ==
    (/\ Succeeded(prev) /\ Succeeded(last)
     /\ SourceBytes(prev) = SourceBytes(last)
     /\ prev.result.FileExt = last.result.FileExt)
    => /\ prev.result.Hash = last.result.Hash
       /\ prev.result.Name = last.result.Name
       /\ prev.param = last.param => prev.result.PathAbs = last.result.PathAbs

\* the same content is stored again: the same bytes under the same extension
\* (multipart) or the same data URI (base64), with the same parameters, and
\* the device does not fail during the second call
StoredAgain ==
    /\ Succeeded(prev)
    /\ last.kind = prev.kind
    /\ last.param = prev.param
    /\ last.kind = "multipart" =>
          /\ last.file.content = prev.file.content
          /\ Ext(last.file.Filename) = Ext(prev.file.Filename)
          /\ ~last.file.openFails /\ last.file.ioFail = -1
    /\ last.kind = "base64" =>
          /\ last.image.content = prev.image.content
          /\ last.image.ioFail = -1

SameRecord(a, b) ==
    /\ a.Size = b.Size /\ a.Hash = b.Hash /\ a.Name = b.Name /\ a.FileExt = b.FileExt
    /\ a.PathAbs = b.PathAbs /\ a.PathRlt = b.PathRlt /\ a.PathUri = b.PathUri

\* C2: storing the same content twice in a row with the same parameters
\* succeeds the second time too, returns the record of the first call, and
\* leaves one regular file at PathAbs, holding the content, and no file more
\* than the first call left.
C2_DuplicateOverwrite ==
    StoredAgain =>
        /\ last.err = ""
        /\ SameRecord(last.result, prev.result)
        /\ FileAt(last.result.PathAbs) = SourceBytes(last)
        /\ DOMAIN names = DOMAIN last.fsBefore.names

\* C2 witness: the same bytes were stored twice, under two original names
C2_Witness ==
    /\ StoredAgain
    /\ last.kind = "multipart"
    /\ last.file.Filename # prev.file.Filename
    /\ last.before.kind = "file"

\* C6: after a successful store the record's Size is the number of bytes
\* written to the file at PathAbs.
C6_RecordSize ==
    Succeeded(last) => last.result.Size = Len(FileAt(last.result.PathAbs))

\* C7: after a successful store the file at PathAbs holds exactly the source
\* bytes, whatever was at PathAbs before.
C7_StoredContent ==
    Succeeded(last) => FileAt(last.result.PathAbs) = SourceBytes(last)

\* C7 witness: the store succeeded where a regular file of another size was
C7_Witness ==
    /\ Succeeded(last)
    /\ last.before.kind = "file"
    /\ last.before.size # Len(SourceBytes(last))
    /\ last.kind = "multipart"


-----------------------------------------------------------------------------
(* Requests with data URIs of every shape *)

Text == <<"t", "e", "x", "t", "/">>

\* data URIs the pattern matches, with a payload that decodes
LegalContents ==
    {UriA,
     DataUri(LitData \o LitImage, Gif, PayAB, <<>>),
     DataUri(LitData \o <<" ", "\t">> \o LitImage, Png, PayA, <<>>),
     DataUri(LitData \o LitImage, Png, PayA, <<"\n", "!">>)}

\* inputs that are no data:image/<type>;base64,<payload>, or whose payload is
\* no base64: plain text, nothing, no image/ segment, another media type,
\* text before data:, no type, a type that is no word, no ;base64, marker, and
\* payloads with a character outside the alphabet, of a wrong length, with
\* padding in the middle, with text after the padding, with a space
IllegalContents ==
    {<<"h", "i">>,
     <<>>,
     DataUri(LitData, Png, PayA, <<>>),
     DataUri(LitData \o Text, Png, PayA, <<>>),
     DataUri(<<" ">> \o LitData \o LitImage, Png, PayA, <<>>),
     DataUri(LitData \o LitImage, <<>>, PayA, <<>>),
     DataUri(LitData \o LitImage, <<"s", "v", "g", "+", "x", "m", "l">>, PayA, <<>>),
     LitData \o LitImage \o Png \o <<",">> \o PayA,
     DataUri(LitData \o LitImage, Png, <<"Q", "!", "=", "=">>, <<>>),
     DataUri(LitData \o LitImage, Png, <<"Q", "Q", "=">>, <<>>),
     DataUri(LitData \o LitImage, Png, <<"Q", "=", "Q", "=">>, <<>>),
     DataUri(LitData \o LitImage, Png, PayA \o PayA, <<>>),
     DataUri(LitData \o LitImage, Png, <<"Q", "Q", " ", "=">>, <<>>)}

RejectImages == {Image(c, -1) : c \in LegalContents \cup IllegalContents}

NextReject == Base64CopyCall(Params, RejectImages)

SpecReject == Init /\ [][NextReject]_vars

\* C4: base64Copy of an input that is no data:image/<type>;base64,<payload>,
\* or whose payload is no valid base64, returns an error and leaves the
\* filesystem as it was: no directory made, no file removed, made or written.
C4_Base64Rejection ==
    (last.kind = "base64" /\ last.image.content \in IllegalContents)
    => /\ last.err # ""
       /\ FS = last.fsBefore

\* C4 witness: an illegal input was rejected while a stored file existed
C4_Witness ==
    /\ last.kind = "base64" /\ last.image.content \in IllegalContents
    /\ last.err # ""
    /\ DOMAIN names # {}

-----------------------------------------------------------------------------
(* Requests with every kind of directory, prefix and sub-directory *)

Str_up == <<"u", "p">>
Str_o == <<"/", "o", "/">>
Str_u == <<"u">>
Str_ab == <<"a", "/", "b">>
Str_data == <<"/", "d", "a", "t", "a">>
Str_static == <<"/", "s", "t", "a", "t", "i", "c">>
Str_date == <<"2", "0", "2", "4", "/", "0", "1", "/", "0", "1">>

PathStorages ==
    {ServerStorage,
     [storageDirectory |-> Str_d, uriAccessPrefix |-> <<>>],
     [storageDirectory |-> Str_up, uriAccessPrefix |-> Str_s]}

PathParams ==
    {Param(dir, prefix, sub) :
        dir \in {<<>>, Str_o}, prefix \in {<<>>, Str_u}, sub \in {<<>>, Str_ab, DotDot}}
    \cup {Param(Str_data, Str_static, Str_date)}

PathFiles == {File(X_png, <<65>>, FALSE, -1)}

PathImages == {Image(UriA, -1)}

InitPath ==
    /\ storage \in PathStorages
    /\ names = EmptyFS.names /\ inodes = EmptyFS.inodes /\ dirs = EmptyFS.dirs
    /\ calls = 0 /\ prev = NoCall /\ last = NoCall
    /\ RestIdle

NextPath == MultipartCopyCall(PathParams, PathFiles) \/ Base64CopyCall(PathParams, PathImages)

SpecPath == InitPath /\ [][NextPath]_vars

\* the base directory, the URI prefix and the sub-directory of the last call
LastB == IF last.param.StorageDirectory # <<>> THEN last.param.StorageDirectory
         ELSE storage.storageDirectory
LastU == IF last.param.UriAccessPrefix # <<>> THEN last.param.UriAccessPrefix
         ELSE storage.uriAccessPrefix
LastS == last.param.StorageSubDirectory

PathCase == Succeeded(last) /\ IsAbs(LastB) /\ LastU # <<>>

\* C5 as claimed: after a successful store with an absolute base directory B
\* and a non-empty prefix U, PathAbs = join(B, S, Name) and PathUri =
\* join(U, S, Name).
C5_PathCorrectness ==
    PathCase =>
        /\ last.result.PathAbs = Join(<<LastB, LastS, last.result.Name>>)
        /\ last.result.PathUri = Join(<<LastU, LastS, last.result.Name>>)

\* C5 as amended: PathAbs = join(B, S, Name), and PathUri is join(U, S, Name)
\* with a slash put before it when it does not start with one.
C5_PathCorrectnessAmended ==
    PathCase =>
        /\ last.result.PathAbs = Join(<<LastB, LastS, last.result.Name>>)
        /\ last.result.PathUri =
              IF HasPrefix(Join(<<LastU, LastS, last.result.Name>>), <<"/">>)
              THEN Join(<<LastU, LastS, last.result.Name>>)
              ELSE <<"/">> \o Join(<<LastU, LastS, last.result.Name>>)

\* C5 witness: a store under a per-request directory, a prefix that does not
\* start with a slash and a sub-directory
C5_Witness ==
    /\ PathCase
    /\ last.param.StorageDirectory # <<>>
    /\ ~HasPrefix(LastU, <<"/">>)
    /\ LastS # <<>>

\* the example of the specification: /data, 2024/01/01, /static
C5_Example ==
    (Succeeded(last) /\ last.param = Param(Str_data, Str_static, Str_date))
    => /\ last.result.PathAbs = Str_data \o <<"/">> \o Str_date \o <<"/">> \o last.result.Name
       /\ last.result.PathUri = Str_static \o <<"/">> \o Str_date \o <<"/">> \o last.result.Name


-----------------------------------------------------------------------------
(* Storage.MultipartCopy, Storage.Base64Copy and Storage.Echo *)

MaxBatch == 3
MaxBatchCalls == 1

\* an element of files: nil, or a file (a data URI for Base64Copy)
Nil == [isNil |-> TRUE, file |-> NoCall.file, image |-> NoCall.image]
FileItem(file) == [isNil |-> FALSE, file |-> file, image |-> NoCall.image]
ImageItem(image) == [isNil |-> FALSE, file |-> NoCall.file, image |-> image]

\* the loop's variables: the filesystem, succeeded, err, and the indexes of
\* the items handed to multipartCopy or base64Copy so far
Loop0(fs) == [fs |-> fs, succeeded |-> <<>>, err |-> "", attempted |-> <<>>]

\* one turn of the loop: on an error the function returns, succeeded as it is
AfterItem(acc, i, out) ==
    [fs |-> out.fs,
     succeeded |-> IF out.err # "" THEN acc.succeeded ELSE Append(acc.succeeded, out.result),
     err |-> out.err,
     attempted |-> Append(acc.attempted, i)]

RECURSIVE MultipartCopyFrom(_, _, _, _, _)
\* Storage.MultipartCopy from files[i] on
MultipartCopyFrom(s, param, files, i, acc) ==
    IF i > Len(files) \/ acc.err # "" THEN acc
    ELSE IF files[i].isNil THEN MultipartCopyFrom(s, param, files, i + 1, acc)
    ELSE MultipartCopyFrom(s, param, files, i + 1,
            AfterItem(acc, i, multipartCopy(acc.fs, s, param, files[i].file)))

\* Storage.MultipartCopy: what it returns (succeeded, err) and leaves (fs)
MultipartCopy(fs, s, param, files) == MultipartCopyFrom(s, param, files, 1, Loop0(fs))

RECURSIVE Base64CopyFrom(_, _, _, _, _)
\* Storage.Base64Copy from files[i] on
Base64CopyFrom(s, param, files, i, acc) ==
    IF i > Len(files) \/ acc.err # "" THEN acc
    ELSE IF files[i].isNil THEN Base64CopyFrom(s, param, files, i + 1, acc)
    ELSE Base64CopyFrom(s, param, files, i + 1,
            AfterItem(acc, i, base64Copy(acc.fs, s, param, files[i].image)))

\* Storage.Base64Copy
Base64Copy(fs, s, param, files) == Base64CopyFrom(s, param, files, 1, Loop0(fs))

\* the multiple files of Echo: MultipartCopy's error is returned with what
\* succeeded holds already; its records are appended only without an error.
\* The files are numbered after the single file (offset: 1 when there is one).
EchoMultiple(single, many, offset) ==
    [fs |-> many.fs,
     succeeded |-> IF many.err # "" THEN single.succeeded
                   ELSE single.succeeded \o many.succeeded,
     err |-> many.err,
     attempted |-> single.attempted
                   \o [k \in 1..Len(many.attempted) |-> many.attempted[k] + offset]]

\* Echo after the single file
EchoAfterSingle(s, param, name, form, single) ==
    IF single.err # "" \/ name.Multiple = <<>> THEN single
    ELSE EchoMultiple(single, MultipartCopy(single.fs, s, param, form.multiple),
                      IF name.Single = <<>> THEN 0 ELSE 1)

\* the single file of Echo: c.FormFile fails when the form has no such file
EchoSingle(fs, s, param, name, form) ==
    IF name.Single = <<>> THEN Loop0(fs)
    ELSE IF form.single.isNil THEN [Loop0(fs) EXCEPT !.err = "missing file"]
    ELSE AfterItem(Loop0(fs), 1, multipartCopy(fs, s, param, form.single.file))

\* Storage.Echo.  form: the single file (Nil when the form has none) and the
\* multiple files of the request; name: the two field names, or Nil
Echo(fs, s, param, name, form) ==
    IF name.isNil THEN Loop0(fs)
    ELSE EchoAfterSingle(s, param, name, form, EchoSingle(fs, s, param, name, form))

RECURSIVE SeqsUpTo(_, _)
\* the sequences over S of length at most n
SeqsUpTo(S, n) ==
    IF n = 0 THEN {<<>>}
    ELSE SeqsUpTo(S, n - 1) \cup {Append(q, x) : q \in {r \in SeqsUpTo(S, n - 1) : Len(r) = n - 1}, x \in S}

BatchFiles ==
    {Nil,
     FileItem(File(X_png, <<65>>, FALSE, -1)),
     FileItem(File(<<"e", ".">> \o Gif, <<66>>, FALSE, -1)),
     FileItem(File(X_png, <<67>>, TRUE, -1))}

BatchImages ==
    {Nil,
     ImageItem(Image(UriA, -1)),
     ImageItem(Image(DataUri(LitData \o LitImage, Gif, PayAB, <<>>), -1)),
     ImageItem(Image(DataUri(LitData \o LitImage, Png, <<"Q", "!", "=", "=">>, <<>>), -1))}

\* whether an item fails when stored, by what it is: a file that cannot be
\* opened, an illegal data URI
Fails(kind, item) ==
    /\ ~item.isNil
    /\ IF kind = "Base64Copy" THEN item.image.content \in IllegalContents
       ELSE item.file.openFails

Str_file == <<"f", "i", "l", "e">>
Str_files == <<"f", "i", "l", "e", "s">>

\* the *MultipartFileName of a request: nil, or the names of the two fields
FieldNames ==
    {[isNil |-> TRUE, Single |-> <<>>, Multiple |-> <<>>],
     [isNil |-> FALSE, Single |-> Str_file, Multiple |-> Str_files],
     [isNil |-> FALSE, Single |-> Str_file, Multiple |-> <<>>],
     [isNil |-> FALSE, Single |-> <<>>, Multiple |-> Str_files]}

Batch(kind, items, out) ==
    [kind |-> kind, items |-> items, succeeded |-> out.succeeded, err |-> out.err,
     attempted |-> out.attempted]

\* a caller's s.MultipartCopy(param, files...)
MultipartCopyBatch ==
    \E files \in SeqsUpTo(BatchFiles, MaxBatch) :
        /\ calls < MaxBatchCalls
        /\ SetFS(MultipartCopy(FS, storage, Param(<<>>, <<>>, Str_a), files).fs)
        /\ batch' = Batch("MultipartCopy", files,
                          MultipartCopy(FS, storage, Param(<<>>, <<>>, Str_a), files))
        /\ calls' = calls + 1
        /\ UNCHANGED <<storage, prev, last, proc, raceIn, mainVars>>

\* the server's s.Base64Copy(fs(c), b64)
Base64CopyBatch ==
    \E files \in SeqsUpTo(BatchImages, MaxBatch) :
        /\ calls < MaxBatchCalls
        /\ SetFS(Base64Copy(FS, storage, Param(<<>>, <<>>, Str_a), files).fs)
        /\ batch' = Batch("Base64Copy", files,
                          Base64Copy(FS, storage, Param(<<>>, <<>>, Str_a), files))
        /\ calls' = calls + 1
        /\ UNCHANGED <<storage, prev, last, proc, raceIn, mainVars>>

\* the items of an Echo request: the single file, then the multiple files, as
\* far as name asks for them
EchoItems(name, single, multiple) ==
    (IF name.Single = <<>> THEN <<>> ELSE <<single>>)
    \o (IF name.Multiple = <<>> THEN <<>> ELSE multiple)

\* the server's s.Echo(c, fs(c), mfn())
EchoRequest ==
    \E name \in FieldNames, single \in BatchFiles,
       multiple \in SeqsUpTo(BatchFiles, MaxBatch - 1) :
        /\ calls < MaxBatchCalls
        /\ SetFS(Echo(FS, storage, Param(<<>>, <<>>, Str_a), name,
                      [single |-> single, multiple |-> multiple]).fs)
        /\ batch' = Batch("Echo", EchoItems(name, single, multiple),
                          Echo(FS, storage, Param(<<>>, <<>>, Str_a), name,
                               [single |-> single, multiple |-> multiple]))
        /\ calls' = calls + 1
        /\ UNCHANGED <<storage, prev, last, proc, raceIn, mainVars>>

NextBatch == MultipartCopyBatch \/ Base64CopyBatch \/ EchoRequest

SpecBatch == Init /\ [][NextBatch]_vars

\* the first item of the last batch that fails, 0 when none does
FirstFailing ==
    LET bad == {k \in 1..Len(batch.items) : Fails(batch.kind, batch.items[k])}
    IN IF bad = {} THEN 0 ELSE CHOOSE k \in bad : \A j \in bad : k <= j

\* C3: when item k of a batch is the first to fail, no item after k is
\* processed and the returned slice holds no record, not even of the items
\* stored before k.
C3_BatchAllOrNothing ==
    (batch.kind # "none" /\ batch.err # "")
    => /\ \A j \in 1..Len(batch.attempted) : batch.attempted[j] <= FirstFailing
       /\ batch.succeeded = <<>>


-----------------------------------------------------------------------------
(* Two requests storing the same upload at the same time *)

\* the bytes io.Copy moves with one Write (32 KiB in the program)
ChunkSize == 1

Procs == {1, 2}

\* the upload both requests store: a file of three bytes, or an image of two
RaceInputs ==
    {[NoCall EXCEPT !.kind = "multipart", !.param = Param(<<>>, <<>>, Str_a),
                    !.file = File(X_png, <<65, 66, 67>>, FALSE, -1)],
     [NoCall EXCEPT !.kind = "base64", !.param = Param(<<>>, <<>>, Str_a),
                    !.image = Image(DataUri(LitData \o LitImage, Png, PayAB, <<>>), -1)]}

\* the same upload as an earlier request stored it, or left it when the
\* device failed after ioFail bytes
Earlier(in, ioFail) ==
    IF in.kind = "multipart"
    THEN multipartCopy(EmptyFS, ServerStorage, in.param, [in.file EXCEPT !.ioFail = ioFail]).fs
    ELSE base64Copy(EmptyFS, ServerStorage, in.param, [in.image EXCEPT !.ioFail = ioFail]).fs

\* the result with its Name, as both copies build it before the paths
Named(in) ==
    IF in.kind = "multipart"
    THEN NamedFile([NoResult EXCEPT !.Size = in.file.Size, !.OriginName = in.file.Filename],
                   in.file)
    ELSE NamedImage(regexpImageBase64(in.image.content), in.image.content)

StartProc == [pc |-> "start", result |-> NoResult, err |-> "", ino |-> 0, off |-> 0]

InitRace ==
    /\ storage = ServerStorage
    /\ raceIn \in RaceInputs
    /\ \E fs \in {EmptyFS, Earlier(raceIn, -1), Earlier(raceIn, 1)} :
          names = fs.names /\ inodes = fs.inodes /\ dirs = fs.dirs
    /\ proc = [p \in Procs |-> StartProc]
    /\ calls = 0 /\ prev = NoCall /\ last = NoCall /\ batch = NoBatch
    /\ mainPc = "off" /\ srvPc = "off" /\ shutdown = NoChan /\ notify = NoChan
    /\ exitDone = FALSE /\ srv = "off" /\ wgCount = 0 /\ sent = NoSent /\ panicked = ""

RaceRest == UNCHANGED <<storage, raceIn, calls, prev, last, batch, mainVars>>

\* the inodes a name refers to or a request holds open
InUse(nm, pr) ==
    {nm[q] : q \in DOMAIN nm} \cup {pr[p].ino : p \in {r \in Procs : pr[r].pc \in {"write", "close"}}}

\* the call returns err
Return(p, err) == proc' = [proc EXCEPT ![p].pc = "done", ![p].err = err]

\* a request up to the second os.Stat: hash, name, paths, and the directory
\* made when nothing is at PathAbs
PrepareAt(p, plan, mk) ==
    /\ SetFS(mk.fs)
    /\ IF mk.err # ""
       THEN proc' = [proc EXCEPT ![p].pc = "done", ![p].err = mk.err, ![p].result = plan.early]
       ELSE proc' = [proc EXCEPT ![p].pc = "stat",
                                 ![p].result = [plan.early EXCEPT !.PathUri = plan.PathUri]]

Prepare(p) ==
    /\ proc[p].pc = "start"
    /\ PrepareAt(p, Plan(storage, raceIn.param, Named(raceIn)),
                 EnsureDirectory(FS, Plan(storage, raceIn.param, Named(raceIn))))
    /\ RaceRest

\* the second os.Stat of PathAbs, and what it decides
StatStep(p) ==
    /\ proc[p].pc = "stat"
    /\ proc' = [proc EXCEPT ![p].pc =
                  IF ShouldRemove(Stat(FS, proc[p].result.PathAbs), proc[p].result,
                                  raceIn.kind = "multipart")
                  THEN "remove" ELSE "create"]
    /\ UNCHANGED fsVars
    /\ RaceRest

RemoveAt(p, rm) ==
    /\ SetFS(Keep(rm.fs, InUse(rm.fs.names, proc)))
    /\ IF rm.err # "" THEN Return(p, rm.err)
       ELSE proc' = [proc EXCEPT ![p].pc = "create"]

\* os.Remove(result.PathAbs)
RemoveStep(p) ==
    /\ proc[p].pc = "remove"
    /\ RemoveAt(p, Remove(FS, proc[p].result.PathAbs))
    /\ RaceRest

CreateAt(p, cr, bs) ==
    /\ SetFS(cr.fs)
    /\ IF cr.err # "" THEN Return(p, cr.err)
       ELSE proc' = [proc EXCEPT ![p].pc = IF bs = <<>> THEN "close" ELSE "write",
                                 ![p].ino = cr.ino, ![p].off = 0]

\* os.Create(result.PathAbs)
CreateStep(p) ==
    /\ proc[p].pc = "create"
    /\ CreateAt(p, Create(FS, proc[p].result.PathAbs), SourceBytes(raceIn))
    /\ RaceRest

Min(a, b) == IF a < b THEN a ELSE b

\* one Write of io.Copy: the next chunk of the source at the file's offset
WriteChunk(p, bs, upTo) ==
    /\ SetFS(WriteAt(FS, proc[p].ino, proc[p].off, SubSeq(bs, proc[p].off + 1, upTo)))
    /\ proc' = [proc EXCEPT ![p].off = upTo,
                            ![p].pc = IF upTo = Len(bs) THEN "close" ELSE "write"]

WriteStep(p) ==
    /\ proc[p].pc = "write"
    /\ WriteChunk(p, SourceBytes(raceIn),
                  Min(proc[p].off + ChunkSize, Len(SourceBytes(raceIn))))
    /\ RaceRest

\* the deferred Close of the created file, and the return
CloseStep(p) ==
    /\ proc[p].pc = "close"
    /\ proc' = [proc EXCEPT ![p].pc = "done"]
    /\ SetFS(Keep(FS, InUse(names, [proc EXCEPT ![p].pc = "done"])))
    /\ RaceRest

NextRace ==
    \E p \in Procs :
        \/ Prepare(p)
        \/ StatStep(p)
        \/ RemoveStep(p)
        \/ CreateStep(p)
        \/ WriteStep(p)
        \/ CloseStep(p)

SpecRace == InitRace /\ [][NextRace]_vars

BothDone == \A p \in Procs : proc[p].pc = "done"

\* C8: of two concurrent store calls of the same content to the same PathAbs,
\* with or without an earlier copy there, neither returns an error.
C8_NeitherFails == \A p \in Procs : proc[p].pc = "done" => proc[p].err = ""

\* C9: once both concurrent calls have returned, one regular file is at
\* PathAbs, it holds the uploaded bytes in full, and at least one call
\* returned without an error.
C9_Converge ==
    BothDone =>
        /\ \A p \in Procs : proc[p].result.PathAbs = proc[1].result.PathAbs
        /\ proc[1].result.PathAbs \in DOMAIN names
        /\ proc[1].result.PathAbs \notin dirs
        /\ FileAt(proc[1].result.PathAbs) = SourceBytes(raceIn)
        /\ \E p \in Procs : proc[p].err = ""

\* C9 witness: both calls returned after writing through the same file, one
\* having truncated it under the other
C9_Witness ==
    /\ BothDone
    /\ proc[1].err = "" /\ proc[2].err = ""
    /\ proc[1].ino = proc[2].ino


-----------------------------------------------------------------------------
(* The example server's main: start, wait for a signal or an error, shut down *)

\* the signals delivered to the process during one run
MaxSignals == 2

InitMain ==
    /\ storage = ServerStorage
    /\ names = EmptyFS.names /\ inodes = EmptyFS.inodes /\ dirs = EmptyFS.dirs
    /\ calls = 0 /\ prev = NoCall /\ last = NoCall /\ batch = NoBatch
    /\ proc = NoRace /\ raceIn = NoCall
    /\ mainPc = "go" /\ srvPc = "off"
    /\ shutdown = NoChan /\ notify = NoChan
    /\ exitDone = FALSE /\ srv = "new" /\ wgCount = 0 /\ sent = NoSent /\ panicked = ""

MainRest == UNCHANGED <<storage, fsVars, calls, prev, last, batch, proc, raceIn>>

\* the process runs: main has not returned and no goroutine has panicked
Alive == mainPc # "exit" /\ panicked = ""

\* wg.Add(1); go func(){...}()
MainGo ==
    /\ Alive /\ mainPc = "go"
    /\ wgCount' = wgCount + 1 /\ srvPc' = "start" /\ mainPc' = "notify"
    /\ UNCHANGED <<shutdown, notify, exitDone, srv, sent, panicked>>
    /\ MainRest

\* notify := make(chan os.Signal, 1); signal.Notify(notify, ...)
MainNotify ==
    /\ Alive /\ mainPc = "notify"
    /\ mainPc' = "select"
    /\ UNCHANGED <<srvPc, shutdown, notify, exitDone, srv, wgCount, sent, panicked>>
    /\ MainRest

\* a signal reaches the process once signal.Notify has registered notify: the
\* runtime sends it without blocking, so a full channel drops it
Signal ==
    /\ Alive /\ mainPc \notin {"go", "notify"}
    /\ sent.signals < MaxSignals
    /\ sent' = [sent EXCEPT !.signals = @ + 1]
    /\ IF notify.closed
       THEN panicked' = "notify" /\ UNCHANGED notify
       ELSE /\ notify' = [notify EXCEPT !.buf = 1]
            /\ UNCHANGED panicked
    /\ UNCHANGED <<mainPc, srvPc, shutdown, exitDone, srv, wgCount>>
    /\ MainRest

\* select: case msg := <-notify
SelectNotify ==
    /\ Alive /\ mainPc = "select" /\ notify.buf = 1
    /\ notify' = [notify EXCEPT !.buf = 0]
    /\ mainPc' = "shutdown"
    /\ UNCHANGED <<srvPc, shutdown, exitDone, srv, wgCount, sent, panicked>>
    /\ MainRest

\* select: case msg := <-shutdown
SelectShutdown ==
    /\ Alive /\ mainPc = "select" /\ shutdown.buf = 1
    /\ shutdown' = [shutdown EXCEPT !.buf = 0]
    /\ mainPc' = "shutdown"
    /\ UNCHANGED <<srvPc, notify, exitDone, srv, wgCount, sent, panicked>>
    /\ MainRest

\* e.Shutdown(c1) closes the listener: from here Serve returns ErrServerClosed
ShutdownCall ==
    /\ Alive /\ mainPc = "shutdown"
    /\ srv' = "closed" /\ mainPc' = "shutting"
    /\ UNCHANGED <<srvPc, shutdown, notify, exitDone, wgCount, sent, panicked>>
    /\ MainRest

\* e.Shutdown returns; it does not wait for e.Start to return
ShutdownReturn ==
    /\ Alive /\ mainPc = "shutting"
    /\ mainPc' = "c2"
    /\ UNCHANGED <<srvPc, shutdown, notify, exitDone, srv, wgCount, sent, panicked>>
    /\ MainRest

\* main returns and runs what it deferred, last deferred first: c2()
DeferC2 ==
    /\ Alive /\ mainPc = "c2"
    /\ mainPc' = "closeNotify"
    /\ UNCHANGED <<srvPc, shutdown, notify, exitDone, srv, wgCount, sent, panicked>>
    /\ MainRest

\* deferred close(notify)
DeferCloseNotify ==
    /\ Alive /\ mainPc = "closeNotify"
    /\ notify' = [notify EXCEPT !.closed = TRUE]
    /\ mainPc' = "closeShutdown"
    /\ UNCHANGED <<srvPc, shutdown, exitDone, srv, wgCount, sent, panicked>>
    /\ MainRest

\* deferred close(shutdown)
DeferCloseShutdown ==
    /\ Alive /\ mainPc = "closeShutdown"
    /\ shutdown' = [shutdown EXCEPT !.closed = TRUE]
    /\ mainPc' = "cancel"
    /\ UNCHANGED <<srvPc, notify, exitDone, srv, wgCount, sent, panicked>>
    /\ MainRest

\* deferred cancel()
DeferCancel ==
    /\ Alive /\ mainPc = "cancel"
    /\ mainPc' = "wait"
    /\ UNCHANGED <<srvPc, shutdown, notify, exitDone, srv, wgCount, sent, panicked>>
    /\ MainRest

\* deferred wg.Wait(), and the process exits
DeferWait ==
    /\ Alive /\ mainPc = "wait" /\ wgCount = 0
    /\ mainPc' = "exit"
    /\ UNCHANGED <<srvPc, shutdown, notify, exitDone, srv, wgCount, sent, panicked>>
    /\ MainRest

\* e.Start(":7878") in the goroutine: it listens and serves, or returns an
\* error at once when the port cannot be bound or the server is already closed
StartServe ==
    /\ Alive /\ srvPc = "start"
    /\ \/ srv = "new" /\ srv' = "listening" /\ srvPc' = "serving"
       \/ srvPc' = "quit" /\ UNCHANGED srv
    /\ UNCHANGED <<mainPc, shutdown, notify, exitDone, wgCount, sent, panicked>>
    /\ MainRest

\* e.Start returns http.ErrServerClosed once the server is shut down
StartReturn ==
    /\ Alive /\ srvPc = "serving" /\ srv = "closed"
    /\ srvPc' = "quit"
    /\ UNCHANGED <<mainPc, shutdown, notify, exitDone, srv, wgCount, sent, panicked>>
    /\ MainRest

\* quit(err) with err # nil: exit.Do runs its function the first time only
Quit ==
    /\ Alive /\ srvPc = "quit"
    /\ IF exitDone THEN srvPc' = "print" ELSE srvPc' = "send"
    /\ exitDone' = TRUE
    /\ UNCHANGED <<mainPc, shutdown, notify, srv, wgCount, sent, panicked>>
    /\ MainRest

\* shutdown <- err: a panic on a closed channel, a wait while the buffer is full
Send ==
    /\ Alive /\ srvPc = "send"
    /\ shutdown.closed \/ shutdown.buf = 0
    /\ IF shutdown.closed
       THEN panicked' = "shutdown" /\ UNCHANGED <<shutdown, sent, srvPc>>
       ELSE /\ shutdown' = [shutdown EXCEPT !.buf = 1]
            /\ sent' = [sent EXCEPT !.errors = @ + 1]
            /\ srvPc' = "print"
            /\ UNCHANGED panicked
    /\ UNCHANGED <<mainPc, notify, exitDone, srv, wgCount>>
    /\ MainRest

\* fmt.Println(err.Error())
PrintErr ==
    /\ Alive /\ srvPc = "print"
    /\ srvPc' = "wgDone"
    /\ UNCHANGED <<mainPc, shutdown, notify, exitDone, srv, wgCount, sent, panicked>>
    /\ MainRest

\* deferred wg.Done()
WgDone ==
    /\ Alive /\ srvPc = "wgDone"
    /\ wgCount' = wgCount - 1 /\ srvPc' = "done"
    /\ UNCHANGED <<mainPc, shutdown, notify, exitDone, srv, sent, panicked>>
    /\ MainRest

NextMain ==
    \/ MainGo \/ MainNotify \/ Signal \/ SelectNotify \/ SelectShutdown
    \/ ShutdownCall \/ ShutdownReturn
    \/ DeferC2 \/ DeferCloseNotify \/ DeferCloseShutdown \/ DeferCancel \/ DeferWait
    \/ StartServe \/ StartReturn \/ Quit \/ Send \/ PrintErr \/ WgDone

SpecMain == InitMain /\ [][NextMain]_vars

\* C10: the server goroutine never sends on the shutdown channel after main
\* has closed it, at most one value is ever sent on it, and a goroutine about
\* to send finds room in the buffer.
C10_ShutdownHandshake ==
    /\ panicked # "shutdown"
    /\ sent.errors <= 1
    /\ (srvPc = "send" /\ ~shutdown.closed) => shutdown.buf = 0

=============================================================================
